---- MODULE Spec2Model ----
(***************************************************************************)
(* picsort.py: import media files from source folders into a library that  *)
(* is partitioned by date.  The model keeps the file system (regular files *)
(* with content and modification time, directories), the module globals    *)
(* hashes and copycount, and the position of main() / importfolder().      *)
(*                                                                         *)
(* Strings are sequences of one-character strings, so that the regular     *)
(* expressions, str.split and str.format of the source are computed.       *)
(* A path is a sequence of components, each component a string.            *)
(***************************************************************************)
EXTENDS Integers, Sequences, FiniteSets, TLC

(* ---------------------------------------------------------------- bounds *)
\* number of regular files in the source folders when the program first runs
MaxFiles == 2
\* number of I/O failures (open, makedirs, rename) the environment injects
MaxFaults == 1

(* ------------------------------------------------------- string helpers *)
Digits == <<"0", "1", "2", "3", "4", "5", "6", "7", "8", "9">>

IsDigit(c) == \E d \in 1..Len(Digits) : Digits[d] = c

\* the characters the regular-expression class \s matches
IsSpace(c) == c \in {" ", "\t", "\n", "\r"}

AllDigits(s, from, to) == \A j \in from..to : IsDigit(s[j])

StartsWith(s, p) == Len(s) >= Len(p) /\ SubSeq(s, 1, Len(p)) = p

EndsWith(s, p) == Len(s) >= Len(p) /\ SubSeq(s, Len(s) - Len(p) + 1, Len(s)) = p

\* str(i) for i >= 0
RECURSIVE Str(_)
Str(i) == IF i < 10 THEN <<Digits[i + 1]>> ELSE Str(i \div 10) \o <<Digits[(i % 10) + 1]>>

\* s.split(sep) for the one-character separators in seps: always a non-empty list
RECURSIVE Split(_, _)
Split(s, seps) ==
    IF \E k \in 1..Len(s) : s[k] \in seps
    THEN LET k == CHOOSE k \in 1..Len(s) : s[k] \in seps /\ \A j \in 1..(k - 1) : s[j] \notin seps
         IN  <<SubSeq(s, 1, k - 1)>> \o Split(SubSeq(s, k + 1, Len(s)), seps)
    ELSE <<s>>

(* ------------------------------------------------------------ the inputs *)
\* file names found in the source folders
NameImage == <<"a", ".", "j", "p", "g">>
NameVideo == <<"V", "I", "D", "_", "2", "0", "2", "3", "0", "4", "0", "1", "_", "0", "0", "1", ".", "m", "p", "4">>
NameClip == <<"c", "l", "i", "p", ".", "m", "p", "4">>
NameNoDot == <<"s", "c", "a", "n">>

\* values of the tag 'EXIF DateTimeOriginal'
TagGood == <<"2", "0", "2", "2", ":", "1", "2", ":", "2", "5", " ", "1", "0", ":", "0", "0", ":", "0", "0">>
TagBad == <<"2", "0", "2", "2", "-", "1", "2", "-", "2", "5">>

\* the folders of the command line
DirIn == << <<"i", "n">> >>
DirSub == << <<"i", "n">>, <<"s", "u", "b">> >>
DirGone == << <<"g", "o", "n", "e">> >>
Library == << <<"l", "i", "b">> >>

FolderChoices == { <<DirIn>>, <<DirIn, DirGone>> }

DirSeq == <<DirIn, DirSub>>

\* the contents of files, as byte sequences
BytesX == <<1>>
BytesY == <<2>>
BytesZ == <<1, 2>>

\* the files a source folder may hold: name, values of the date tag ({} when
\* the file has no such tag), content and st_mtime
FileSeq ==
    << [name |-> NameImage, dto |-> {TagGood}, content |-> BytesX, mtime |-> 1],
       [name |-> NameImage, dto |-> {TagGood}, content |-> BytesX, mtime |-> 2],
       [name |-> NameImage, dto |-> {TagGood}, content |-> BytesY, mtime |-> 1],
       [name |-> NameImage, dto |-> {TagGood}, content |-> BytesZ, mtime |-> 1],
       [name |-> NameImage, dto |-> {},        content |-> BytesX, mtime |-> 1],
       [name |-> NameImage, dto |-> {TagBad},  content |-> BytesX, mtime |-> 1],
       [name |-> NameVideo, dto |-> {},        content |-> BytesX, mtime |-> 1],
       [name |-> NameClip,  dto |-> {TagGood}, content |-> BytesX, mtime |-> 1],
       [name |-> NameNoDot, dto |-> {TagGood}, content |-> BytesX, mtime |-> 1],
       [name |-> NameNoDot, dto |-> {TagGood}, content |-> BytesZ, mtime |-> 1] >>

FileIds == 1..MaxFiles

\* a choice of directory and file for one source file, and its rank in the
\* catalogue of choices (the files of Init are drawn in increasing rank)
Slots == (1..Len(DirSeq)) \X (1..Len(FileSeq))

Rank(s) == (s[1] * Len(FileSeq)) + s[2]

SlotPath(s) == DirSeq[s[1]] \o <<FileSeq[s[2]].name>>

SlotFile(i, s) ==
    [id |-> i, content |-> FileSeq[s[2]].content, mtime |-> FileSeq[s[2]].mtime,
     dto |-> FileSeq[s[2]].dto]

(* ------------------------------------------------------------------ state *)
VARIABLES
    platform,   \* "posix" or "nt": decides what os.path.join and os.makedirs take as separator
    files,      \* regular files: path -> [id, content, mtime, dto]
    dirs,       \* the directories that exist
    pc,         \* position of main(): main, items, hash, date, copy, done, aborted, crashed
    worklist,   \* folders main() has still to pass to importfolder
    cwd,        \* the directory importfolder is scanning
    todo,       \* entries of os.listdir(cwd) not yet visited
    item,       \* the entry being processed
    metadata,   \* the groupdict of the date match: <<year, month, day>>
    hashes,     \* module global hashes: (digest, size) -> path
    copycount,  \* module global copycount
    report,     \* the two numbers of the final log line, <<>> before it is written
    outcome,    \* per file id: what the run logged / did for it
    seen,       \* file ids in the order hashfile read them in this run
    files0,     \* the regular files when the run started: file id -> path
    dirs0,      \* the directories when the run started
    faults      \* number of I/O failures so far

vars == <<platform, files, dirs, pc, worklist, cwd, todo, item, metadata,
          hashes, copycount, report, outcome, seen, files0, dirs0, faults>>

(* ------------------------------------------------- functions of the code *)
Exists(path) == path \in DOMAIN files \/ path \in dirs

IsFile(path) == path \in DOMAIN files

ListDir(directory) ==
    { p[Len(p)] : p \in { q \in (DOMAIN files) \cup dirs :
                            Len(q) = Len(directory) + 1 /\ SubSeq(q, 1, Len(directory)) = directory } }

\* os.walk(directory): the directory itself, then the walk of each subdirectory
RECURSIVE WalkSubs(_)
WalkDir(directory) ==
    <<directory>> \o WalkSubs({ q \in dirs : Len(q) = Len(directory) + 1
                                           /\ SubSeq(q, 1, Len(directory)) = directory })
WalkSubs(subs) ==
    IF subs = {} THEN <<>>
    ELSE LET d == CHOOSE d \in subs : TRUE IN WalkDir(d) \o WalkSubs(subs \ {d})

\* the calls of importfolder that the loop of main makes
RECURSIVE Folders(_, _)
Folders(folders, recursive) ==
    IF folders = <<>> THEN <<>>
    ELSE (IF recursive THEN WalkDir(Head(folders)) ELSE <<Head(folders)>>)
         \o Folders(Tail(folders), recursive)

\* hashlib.sha1 fed chunk by chunk: the digest of the whole content, taken as
\* free of collisions (an injective code of the byte sequence)
RECURSIVE Sha1(_)
Sha1(content) ==
    IF content = <<>> THEN 1 ELSE (Head(content) + 1) + 257 * Sha1(Tail(content))

\* fileid = (hashobj.digest(), os.path.getsize(filename))
FileIdOf(f) == <<Sha1(f.content), Len(f.content)>>

\* filecmp._sig of a regular file: (type, size, mtime)
Sig(f) == <<"S_IFREG", Len(f.content), f.mtime>>

\* variant: a comparison of the stat signatures alone
comparefilesMutant(file1, file2) ==
    /\ file1 \in DOMAIN files
    /\ file2 \in DOMAIN files
    /\ Sig(files[file1]) = Sig(files[file2])

\* filecmp.cmp(file1, file2) with its default shallow=True: equal signatures
\* are taken as equal files, otherwise equal sizes and equal bytes decide
comparefiles(file1, file2) ==
    /\ file1 \in DOMAIN files
    /\ file2 \in DOMAIN files
    /\ \/ Sig(files[file1]) = Sig(files[file2])
       \/ /\ Len(files[file1].content) = Len(files[file2].content)
          /\ files[file1].content = files[file2].content

\* dateregex.match(value): the groups year, month, day, or <<>> for no match
DateRegex(s) ==
    IF /\ Len(s) \in {19, 20}
       /\ Len(s) = 20 => s[20] = "\n"
       /\ AllDigits(s, 1, 4) /\ s[5] = ":" /\ AllDigits(s, 6, 7) /\ s[8] = ":"
       /\ AllDigits(s, 9, 10) /\ IsSpace(s[11])
       /\ AllDigits(s, 12, 13) /\ s[14] = ":" /\ AllDigits(s, 15, 16) /\ s[17] = ":"
       /\ AllDigits(s, 18, 19)
    THEN <<SubSeq(s, 1, 4), SubSeq(s, 6, 7), SubSeq(s, 9, 10)>>
    ELSE <<>>

\* re.match(r"VID_(\d{4})(\d{2})(\d{2})_\d+\.mp4", filename): anchored at the
\* start only; the groups year, month, day, or <<>> for no match
VideoRegex(filename) ==
    IF /\ Len(filename) >= 14
       /\ StartsWith(filename, <<"V", "I", "D", "_">>)
       /\ AllDigits(filename, 5, 12)
       /\ filename[13] = "_"
       /\ \E k \in 1..(Len(filename) - 13) :
              /\ AllDigits(filename, 14, 13 + k)
              /\ StartsWith(SubSeq(filename, 14 + k, Len(filename)), <<".", "m", "p", "4">>)
    THEN <<SubSeq(filename, 5, 8), SubSeq(filename, 9, 10), SubSeq(filename, 11, 12)>>
    ELSE <<>>

\* '{0}\\{1}\\{2}'.format(year, month, day)
LibraryPath(md) == md[1] \o <<"\\">> \o md[2] \o <<"\\">> \o md[3]

\* the characters the platform takes as separators inside a path string
PathSeps == IF platform = "nt" THEN {"\\", "/"} ELSE {"/"}

\* os.path.join(base, rel) as the file system reads it: the components of base
\* followed by the components of rel
Join(base, rel) == base \o Split(rel, PathSeps)

\* the directory copyimage / copyvideo pass to copyfile
LibraryDir(md) == Join(Library, LibraryPath(md))

\* '{0}-{1}.{2}'.format(parts[0], i, parts[1]) for parts = filename.split('.')
NewFileName(filename, i) ==
    LET parts == Split(filename, {"."})
    IN  parts[1] \o <<"-">> \o Str(i) \o <<".">> \o parts[2]

\* variant: the first candidate is taken without a look at what is there
CandidateMutant(absolutepath, filename, library, librarypath, i) ==
    [kind |-> "free", path |-> librarypath, i |-> i]

\* the while loop of copyfile: "same" when an occupied candidate compares
\* equal, "free" at the first candidate that does not exist, "indexerror" when
\* filename.split('.') has no second part
RECURSIVE Candidate(_, _, _, _, _)
Candidate(absolutepath, filename, library, librarypath, i) ==
    IF Exists(librarypath)
    THEN IF comparefiles(absolutepath, librarypath)
         THEN [kind |-> "same", path |-> librarypath, i |-> i]
         ELSE IF Len(Split(filename, {"."})) < 2
              THEN [kind |-> "indexerror", path |-> librarypath, i |-> i]
              ELSE Candidate(absolutepath, filename, library,
                             Join(library, NewFileName(filename, i)), i + 1)
    ELSE [kind |-> "free", path |-> librarypath, i |-> i]

\* the directories os.makedirs(directory) has to create, outermost first
MissingDirs(directory) ==
    LET ks == { k \in 1..Len(directory) : SubSeq(directory, 1, k) \notin dirs }
    IN  [ n \in 1..Cardinality(ks) |->
            SubSeq(directory, 1, (Len(directory) - Cardinality(ks)) + n) ]

\* where file i is
Where(i) == CHOOSE p \in DOMAIN files : files[p].id = i

\* where each file is: file id -> path
PathOf == [ i \in FileIds |-> Where(i) ]

(* ------------------------------------------------------------------ Init *)
NoOutcome == [i \in FileIds |-> "Untouched"]

Init ==
    /\ platform \in {"posix", "nt"}
    /\ \E pick \in [FileIds -> Slots] :
          /\ \A i, j \in FileIds : i < j => Rank(pick[i]) < Rank(pick[j])
          /\ \A i, j \in FileIds : i # j => SlotPath(pick[i]) # SlotPath(pick[j])
          /\ files = [ p \in { SlotPath(pick[i]) : i \in FileIds } |->
                         LET i == CHOOSE i \in FileIds : SlotPath(pick[i]) = p
                         IN  SlotFile(i, pick[i]) ]
    /\ dirs = {DirIn, DirSub, Library}
    /\ pc = "main"
    /\ worklist = <<>>
    /\ cwd = <<>>
    /\ todo = {}
    /\ item = <<>>
    /\ metadata = <<>>
    /\ hashes = <<>>
    /\ copycount = 0
    /\ report = <<>>
    /\ outcome = NoOutcome
    /\ seen = <<>>
    /\ files0 = PathOf
    /\ dirs0 = dirs
    /\ faults = 0

(* --------------------------------------------------------------- actions *)
absolutepath == cwd \o <<item>>

\* variant: only the first folder given is tested
MissingFolderMutant(folders) == ~Exists(folders[1])

\* main(), lines 172-175: some folder given does not exist
MissingFolder(folders) == \E k \in 1..Len(folders) : ~Exists(folders[k])

\* main(), lines 168-175: every folder must exist, else return -1
Main ==
    /\ pc = "main"
    /\ \E folders \in FolderChoices, recursive \in BOOLEAN :
          IF MissingFolder(folders)
          THEN /\ pc' = "aborted"
               /\ worklist' = <<>>
          ELSE /\ pc' = "items"
               /\ worklist' = Folders(folders, recursive)
    /\ UNCHANGED <<platform, files, dirs, cwd, todo, item, metadata, hashes,
                   copycount, report, outcome, seen, files0, dirs0, faults>>

\* main(), lines 177-182: the previous folder is finished, importfolder is
\* called for the next one and lists it (line 123)
ImportFolder ==
    /\ pc = "items"
    /\ todo = {}
    /\ worklist # <<>>
    /\ cwd' = Head(worklist)
    /\ worklist' = Tail(worklist)
    /\ todo' = ListDir(Head(worklist))
    /\ UNCHANGED <<platform, files, dirs, pc, item, metadata, hashes, copycount,
                   report, outcome, seen, files0, dirs0, faults>>

\* main(), line 184: after the last folder, the final log line
Report ==
    /\ pc = "items"
    /\ todo = {}
    /\ worklist = <<>>
    /\ report' = <<Cardinality(DOMAIN hashes), copycount>>
    /\ pc' = "done"
    /\ UNCHANGED <<platform, files, dirs, worklist, cwd, todo, item, metadata,
                   hashes, copycount, outcome, seen, files0, dirs0, faults>>

\* importfolder, lines 123-128: the next entry of the listing, in any order;
\* an entry that is no regular file is passed over
NextItem ==
    /\ pc = "items"
    /\ todo # {}
    /\ \E e \in todo :
          /\ todo' = todo \ {e}
          /\ IF IsFile(cwd \o <<e>>)
             THEN item' = e /\ pc' = "hash"
             ELSE item' = <<>> /\ pc' = "items"
    /\ UNCHANGED <<platform, files, dirs, worklist, cwd, metadata, hashes,
                   copycount, report, outcome, seen, files0, dirs0, faults>>

\* variant: a hashfile that finds every file unique
HashResultMutant(filename) == TRUE

\* hashfile as called by importfolder at line 130: TRUE when the file was
\* read and its fileid was not yet in hashes
HashResult(filename) == FileIdOf(files[filename]) \notin DOMAIN hashes

\* variant: hashfile registers nothing
HashForgetMutant(filename) == hashes

\* variant: a hashfile that stores the path of the last file with a fileid
HashInsertMutant(filename) ==
    LET fileid == FileIdOf(files[filename])
    IN  [ k \in (DOMAIN hashes) \cup {fileid} |-> IF k = fileid THEN filename ELSE hashes[k] ]

\* hashes after hashfile(filename)
HashInsert(filename) ==
    LET fileid == FileIdOf(files[filename])
    IN  IF fileid \in DOMAIN hashes
        THEN hashes
        ELSE [ k \in (DOMAIN hashes) \cup {fileid} |->
                 IF k = fileid THEN filename ELSE hashes[k] ]

\* hashfile + lines 130-131.  open() may raise (the file cannot be read):
\* nothing catches the exception and the process ends with a traceback
HashFile ==
    /\ pc = "hash"
    /\ \E readable \in BOOLEAN :
          /\ ~readable => faults < MaxFaults
          /\ IF ~readable
             THEN /\ pc' = "crashed"
                  /\ faults' = faults + 1
                  /\ UNCHANGED <<hashes, outcome, seen, item>>
             ELSE /\ faults' = faults
                  /\ hashes' = HashInsert(absolutepath)
                  /\ seen' = Append(seen, files[absolutepath].id)
                  /\ IF HashResult(absolutepath)
                     THEN /\ pc' = "date"
                          /\ outcome' = [outcome EXCEPT ![files[absolutepath].id] = "Unique"]
                          /\ item' = item
                     ELSE /\ pc' = "items"
                          /\ outcome' = [outcome EXCEPT ![files[absolutepath].id] = "DuplicateSkipped"]
                          /\ item' = <<>>
    /\ UNCHANGED <<platform, files, dirs, worklist, cwd, todo, metadata,
                   copycount, report, files0, dirs0>>

\* line 133 and copyvideo, lines 76-82: the date of an .mp4 from its name
VideoDate(filename) == VideoRegex(filename)

CopyVideo ==
    /\ pc = "date"
    /\ EndsWith(item, <<".", "m", "p", "4">>)
    /\ IF VideoDate(item) = <<>>
       THEN /\ pc' = "items"
            /\ outcome' = [outcome EXCEPT ![files[absolutepath].id] = "MissingSkipped"]
            /\ item' = <<>>
            /\ metadata' = <<>>
       ELSE /\ pc' = "copy"
            /\ metadata' = VideoDate(item)
            /\ UNCHANGED <<outcome, item>>
    /\ UNCHANGED <<platform, files, dirs, worklist, cwd, todo, hashes,
                   copycount, report, seen, files0, dirs0, faults>>

\* variant: the date is cut out of the tag without matching dateregex
ImageDateMutant(tags) ==
    IF tags = {} THEN <<>>
    ELSE LET v == CHOOSE v \in tags : TRUE
         IN  IF Len(v) >= 10 THEN <<SubSeq(v, 1, 4), SubSeq(v, 6, 7), SubSeq(v, 9, 10)>> ELSE <<>>

\* importfolder, lines 137-148: metadata from the tag 'EXIF DateTimeOriginal'
ImageDate(tags) ==
    IF tags = {} THEN <<>> ELSE DateRegex(CHOOSE v \in tags : TRUE)

ReadExif ==
    /\ pc = "date"
    /\ ~EndsWith(item, <<".", "m", "p", "4">>)
    /\ IF ImageDate(files[absolutepath].dto) = <<>>
       THEN /\ pc' = "items"
            /\ outcome' = [outcome EXCEPT ![files[absolutepath].id] = "MissingSkipped"]
            /\ item' = <<>>
            /\ metadata' = <<>>
       ELSE /\ pc' = "copy"
            /\ metadata' = ImageDate(files[absolutepath].dto)
            /\ UNCHANGED <<outcome, item>>
    /\ UNCHANGED <<platform, files, dirs, worklist, cwd, todo, hashes,
                   copycount, report, seen, files0, dirs0, faults>>

\* the file system after os.rename(src, dst)
Rename(src, dst) ==
    [ p \in ((DOMAIN files) \ {src}) \cup {dst} |-> IF p = dst THEN files[src] ELSE files[p] ]

\* the environment may still make an I/O call fail
MayFail == faults < MaxFaults

\* variant: the file is moved although os.rename raised
FilesAfterMutant(src, dst, renamed) == Rename(src, dst)

\* lines 110-116: the file system after the try block around os.rename
FilesAfter(src, dst, renamed) == IF renamed THEN Rename(src, dst) ELSE files

\* variant: copycount is incremented after the try block, whatever happened
CopyCountAfterMutant(renamed) == copycount + 1

\* lines 112-115: copycount is incremented in the else branch of the try only
CopyCountAfter(renamed) == IF renamed THEN copycount + 1 ELSE copycount

\* copyfile, lines 88-116, with validatedirectory, lines 56-67.  os.makedirs
\* may fail (it then creates none of the missing directories) and os.rename
\* may fail; both raise OSError, which the code catches.  The IndexError of
\* line 103 is not caught.
CopyFile ==
    /\ pc = "copy"
    /\ LET library == LibraryDir(metadata)
           missing == MissingDirs(library)
           id      == files[absolutepath].id
           c       == Candidate(absolutepath, item, library, Join(library, item), 1)
       IN  \E made \in {0, Len(missing)}, renamed \in BOOLEAN :
              /\ made < Len(missing) => MayFail
              /\ dirs' = dirs \cup { missing[n] : n \in 1..made }
              /\ IF made < Len(missing)
                 THEN /\ pc' = "items"
                      /\ outcome' = [outcome EXCEPT ![id] = "Errored"]
                      /\ faults' = faults + 1
                      /\ UNCHANGED <<files, copycount>>
                 ELSE CASE c.kind = "same" ->
                              /\ renamed
                              /\ pc' = "items"
                              /\ outcome' = [outcome EXCEPT ![id] = "SkippedIdentical"]
                              /\ UNCHANGED <<files, copycount, faults>>
                        [] c.kind = "indexerror" ->
                              /\ renamed
                              /\ pc' = "crashed"
                              /\ UNCHANGED <<files, copycount, outcome, faults>>
                        [] c.kind = "free" ->
                              /\ ~renamed => MayFail
                              /\ pc' = "items"
                              /\ files' = FilesAfter(absolutepath, c.path, renamed)
                              /\ copycount' = CopyCountAfter(renamed)
                              /\ faults' = IF renamed THEN faults ELSE faults + 1
                              /\ outcome' = [outcome EXCEPT
                                               ![id] = IF ~renamed THEN "Errored"
                                                       ELSE IF c.i = 1 THEN "Moved"
                                                       ELSE "RenamedMoved"]
    /\ item' = IF pc' = "crashed" THEN item ELSE <<>>
    /\ metadata' = IF pc' = "crashed" THEN metadata ELSE <<>>
    /\ UNCHANGED <<platform, worklist, cwd, todo, hashes, report, seen, files0, dirs0>>

\* the program is started again: a new process with fresh module globals
NewRun ==
    /\ pc \in {"done", "aborted", "crashed"}
    /\ pc' = "main"
    /\ worklist' = <<>>
    /\ cwd' = <<>>
    /\ todo' = {}
    /\ item' = <<>>
    /\ metadata' = <<>>
    /\ hashes' = <<>>
    /\ copycount' = 0
    /\ report' = <<>>
    /\ outcome' = NoOutcome
    /\ seen' = <<>>
    /\ files0' = PathOf
    /\ dirs0' = dirs
    /\ UNCHANGED <<platform, files, dirs, faults>>

Next ==
    \/ Main
    \/ ImportFolder
    \/ NextItem
    \/ HashFile
    \/ CopyVideo
    \/ ReadExif
    \/ CopyFile
    \/ Report
    \/ NewRun

Spec == Init /\ [][Next]_vars

(* ------------------------------------------------ vocabulary of the claims *)
InLibrary(path) == Len(path) > Len(Library) /\ SubSeq(path, 1, Len(Library)) = Library

NameOf(i) == Where(i)[Len(Where(i))]

ContentOf(i) == files[Where(i)].content

TagsOf(i) == files[Where(i)].dto

\* the date of file i: for an .mp4 the groups of the video pattern in the name
\* it had when the run started, otherwise the groups of the date pattern in
\* its date tag; <<>> when there is none
DateOf(i) ==
    LET name == files0[i][Len(files0[i])]
    IN  IF EndsWith(name, <<".", "m", "p", "4">>) THEN VideoRegex(name)
        ELSE IF TagsOf(i) = {} THEN <<>>
        ELSE DateRegex(CHOOSE v \in TagsOf(i) : TRUE)

AtHome(i) == Where(i) = files0[i]

WasSource(i) == ~InLibrary(files0[i])

MovedStates == {"Moved", "RenamedMoved"}

\* the position in seen of the first file read with the content of file i
FirstSeen(i) ==
    CHOOSE n \in 1..Len(seen) :
        /\ ContentOf(seen[n]) = ContentOf(i)
        /\ \A m \in 1..(n - 1) : ContentOf(seen[m]) # ContentOf(i)

(* ------------------------------------------------------------------ claims *)

\* C1: within one run, of the files with byte-identical content only the first
\* one read is routed; every later one is DuplicateSkipped, is not put into the
\* registry (which keeps the path of the first file) and stays at its path.
C1_OnlyFirstOfEqualContentRouted ==
    \A n \in 1..Len(seen) :
        LET i == seen[n]
        IN  IF FirstSeen(i) = n
            THEN /\ outcome[i] # "DuplicateSkipped"
                 /\ hashes[FileIdOf(files[Where(i)])] = files0[i]
            ELSE /\ outcome[i] = "DuplicateSkipped"
                 /\ AtHome(i)
                 /\ hashes[FileIdOf(files[Where(i)])] = files0[seen[FirstSeen(i)]]
                 /\ hashes[FileIdOf(files[Where(i)])] # files0[i]

C1_Witness ==
    /\ pc = "done"
    /\ \E i \in FileIds : outcome[i] = "DuplicateSkipped" /\ AtHome(i)

\* C2: source files that resolve to the same destination directory and the
\* same basename and differ pairwise in content are all in the library when
\* the run ends, under distinct names, none overwriting another.  (Files whose
\* placement met an I/O failure are left out.)
C2_SameNameDifferentContentAllPlaced ==
    pc = "done" =>
        \A i, j \in FileIds :
            ( /\ i # j
              /\ WasSource(i) /\ WasSource(j)
              /\ \E n \in 1..Len(seen) : seen[n] = i
              /\ \E n \in 1..Len(seen) : seen[n] = j
              /\ files0[i][Len(files0[i])] = files0[j][Len(files0[j])]
              /\ DateOf(i) # <<>> /\ DateOf(i) = DateOf(j)
              /\ ContentOf(i) # ContentOf(j)
              /\ outcome[i] # "Errored" /\ outcome[j] # "Errored" )
            => /\ InLibrary(Where(i)) /\ InLibrary(Where(j))
               /\ Where(i) # Where(j)

\* C3: after any sequence of runs into a library that started without two
\* content-identical files, the library never holds two files at different
\* paths with byte-identical content (stated for runs without I/O failure).
C3_LibraryNeverHoldsEqualContentTwice ==
    faults = 0 =>
        \A i, j \in FileIds :
            (i # j /\ InLibrary(Where(i)) /\ InLibrary(Where(j)))
            => ContentOf(i) # ContentOf(j)

\* C3 as amended: within one run, no two files the run moves into the library
\* have byte-identical content.
C3_NoEqualContentMovedTwiceInOneRun ==
    \A i, j \in FileIds :
        (i # j /\ outcome[i] \in MovedStates /\ outcome[j] \in MovedStates)
        => ContentOf(i) # ContentOf(j)

C3_Witness ==
    /\ pc = "done"
    /\ \E i, j \in FileIds :
          /\ i # j
          /\ outcome[i] \in MovedStates /\ outcome[j] \in MovedStates
          /\ DateOf(i) = DateOf(j)

\* C4: a file whose date cannot be resolved (an .mp4 name that does not match
\* the video pattern, an image whose date tag is missing or does not match the
\* date pattern) is never moved, and the steps that process it create no
\* directory and no file in the library and leave the moved counter alone.
C4_UnresolvedDateNeverMoved ==
    [][ \A i \in FileIds :
          (WasSource(i) /\ AtHome(i) /\ DateOf(i) = <<>>)
          => /\ Where(i)' = Where(i)
             /\ outcome'[i] \notin (MovedStates \cup {"SkippedIdentical", "Errored"})
             /\ (pc \in {"hash", "date", "copy"} /\ absolutepath = Where(i))
                => (files' = files /\ dirs' = dirs /\ copycount' = copycount) ]_vars

C4_Witness ==
    /\ pc = "done"
    /\ \E i, j \in FileIds :
          /\ outcome[i] = "MissingSkipped" /\ TagsOf(i) = {TagBad} /\ AtHome(i)
          /\ outcome[j] \in MovedStates

\* C5: the final log line reports the number of distinct identity keys among
\* the files the run read, and the number of files that ended Moved or
\* RenamedMoved.
C5_ReportCountsUniqueAndMoved ==
    pc = "done" =>
        /\ report[1] = Cardinality({ FileIdOf(files[Where(seen[n])]) : n \in 1..Len(seen) })
        /\ report[2] = Cardinality({ i \in FileIds : outcome[i] \in MovedStates })

C5_Witness ==
    /\ pc = "done"
    /\ report[2] = 1
    /\ \E i \in FileIds : outcome[i] = "Errored"

\* C6: a file moved with resolved date (year, month, day) ends at
\* library / year / month / day / name: three nested directory levels.
C6_MovedUnderYearMonthDay ==
    \A i \in FileIds :
        outcome[i] \in MovedStates
        => /\ Len(Where(i)) = Len(Library) + 4
           /\ SubSeq(Where(i), 1, Len(Library)) = Library
           /\ SubSeq(Where(i), Len(Library) + 1, Len(Library) + 3) = DateOf(i)
           /\ \A k \in 1..3 : SubSeq(Where(i), 1, Len(Library) + k) \in dirs

\* the library holds, at the destination of file i (directory of its date,
\* its basename), a file with the content of file i that was there when the
\* run started
PlacedBefore(i) ==
    \E j \in FileIds :
        /\ InLibrary(files0[j])
        /\ files0[j] = LibraryDir(DateOf(i)) \o <<files0[i][Len(files0[i])]>>
        /\ ContentOf(j) = ContentOf(i)

C8_SkippedOnlyWhenByteIdentical ==
    \A i \in FileIds :
        outcome[i] = "SkippedIdentical"
        => \E j \in FileIds :
              /\ j # i
              /\ InLibrary(Where(j))
              /\ SubSeq(Where(j), 1, Len(Where(j)) - 1) = LibraryDir(DateOf(i))
              /\ ContentOf(j) = ContentOf(i)

\* C9: a file that hashfile cannot open does not end the run: after the step
\* of hashfile the run goes on, to the date of the file or to the next entry.
C9_ReadErrorDoesNotAbort ==
    [][ pc = "hash" => pc' \in {"date", "items"} ]_vars

\* C10: when the placement of a file fails (the destination directory cannot
\* be created, or the rename fails) no regular file is moved, added or
\* altered, the moved counter is unchanged and the run goes on with the next
\* entry.
C10_FailedPlacementLeavesFilesAlone ==
    [][ \A i \in FileIds :
          (outcome[i] # "Errored" /\ outcome'[i] = "Errored")
          => /\ files' = files
             /\ copycount' = copycount
             /\ pc' = "items" ]_vars

C10_Witness ==
    /\ pc = "done"
    /\ Len(seen) = 2
    /\ outcome[seen[1]] = "Errored" /\ AtHome(seen[1])
    /\ outcome[seen[2]] \in MovedStates

\* C11: the run never goes on with a folder that does not exist: when a folder
\* given is missing the run is aborted, and at the abort nothing was hashed,
\* registered, counted, reported, moved or created, also for the folders
\* listed before the missing one.
C11_MissingFolderAbortsBeforeProcessing ==
    /\ \A k \in 1..Len(worklist) : Exists(worklist[k])
    /\ pc = "aborted"
       => /\ hashes = <<>> /\ copycount = 0 /\ report = <<>>
          /\ seen = <<>> /\ outcome = NoOutcome
          /\ dirs = dirs0
          /\ \A i \in FileIds : AtHome(i)

C11_Witness ==
    /\ pc = "aborted"
    /\ ~Exists(DirGone)
    /\ \E p \in DOMAIN files : SubSeq(p, 1, Len(p) - 1) = DirIn

\* a name of the shape VID_<8 digits>_<digits>.<ext>, whatever the extension:
\* the pattern of copyvideo with the extension left open
VideoShape(filename) ==
    /\ Len(filename) >= 16
    /\ StartsWith(filename, <<"V", "I", "D", "_">>)
    /\ AllDigits(filename, 5, 12)
    /\ filename[13] = "_"
    /\ \E k \in 1..(Len(filename) - 15) :
           /\ AllDigits(filename, 14, 13 + k)
           /\ filename[14 + k] = "."
           /\ \A n \in (15 + k)..Len(filename) : filename[n] # "."

\* the date of file i when files are told apart by the shape of the name:
\* the digits of a name of the video shape, else the date of the date tag
ShapeDate(i) ==
    LET name == files0[i][Len(files0[i])]
    IN  IF VideoShape(name)
        THEN <<SubSeq(name, 5, 8), SubSeq(name, 9, 10), SubSeq(name, 11, 12)>>
        ELSE IF TagsOf(i) = {} THEN <<>>
        ELSE DateRegex(CHOOSE v \in TagsOf(i) : TRUE)

\* C12: files are told apart by the shape of the name: a source file is
\* skipped for want of a date only when the date that the shape of its name
\* selects (the digits of a video name, else the date tag) is missing, and a
\* file that was moved lies in the directory of that date.
C12_ClassifiedByVideoShape ==
    \A i \in FileIds :
        /\ outcome[i] = "MissingSkipped" => ShapeDate(i) = <<>>
        /\ outcome[i] \in MovedStates
           => /\ ShapeDate(i) # <<>>
              /\ SubSeq(Where(i), 1, Len(Where(i)) - 1) = LibraryDir(ShapeDate(i))

\* C13: a rename forced by a collision never makes the placement fail, and a
\* file moved under a new name has its first name with -N put immediately
\* before the extension (before the last dot; at the end of a name with no
\* dot), so that every part of the name is kept.
C13_RenameInsertsBeforeExtension ==
    /\ ~(pc = "crashed" /\ metadata # <<>>)
    /\ \A i \in FileIds :
          outcome[i] = "RenamedMoved"
          => LET name == files0[i][Len(files0[i])]
                 dots == { k \in 1..Len(name) : name[k] = "." }
                 cut  == IF dots = {} THEN Len(name) + 1
                         ELSE CHOOSE k \in dots : \A m \in dots : m <= k
             IN  \E n \in 1..MaxFiles :
                    NameOf(i) = SubSeq(name, 1, cut - 1) \o <<"-">> \o Str(n)
                                \o SubSeq(name, cut, Len(name))

\* C14: the candidates of a placement are name, name-1, name-2, ... in this
\* order: the step of copyfile always ends without failing; a file it skips
\* as identical has its very bytes at a candidate before the first free one,
\* and a file it moves goes to the first free candidate while no candidate
\* before that one holds its bytes.
C14_CandidatesTriedInOrder ==
    [][ pc = "copy"
        => LET i == files[absolutepath].id
               dots == { k \in 1..Len(item) : item[k] = "." }
               cut  == IF dots = {} THEN Len(item) + 1
                       ELSE CHOOSE k \in dots : \A m \in dots : m <= k
               CandidatePath(n) ==
                   IF n = 0 THEN Join(LibraryDir(metadata), item)
                   ELSE Join(LibraryDir(metadata),
                             SubSeq(item, 1, cut - 1) \o <<"-">> \o Str(n)
                             \o SubSeq(item, cut, Len(item)))
               SameBytes(n) ==
                   /\ CandidatePath(n) \in DOMAIN files
                   /\ files[CandidatePath(n)].content = files[absolutepath].content
               free  == { n \in 0..MaxFiles : ~Exists(CandidatePath(n)) }
               first == CHOOSE n \in free : \A m \in free : n <= m
           IN  /\ pc' = "items"
               /\ outcome'[i] = "SkippedIdentical"
                  => \E n \in 0..(first - 1) : SameBytes(n)
               /\ outcome'[i] \in MovedStates
                  => /\ files' = Rename(absolutepath, CandidatePath(first))
                     /\ \A n \in 0..(first - 1) : ~SameBytes(n) ]_vars

\* C15: a run stops only at the final report (or at the abort of main before
\* any file), never in the middle of a file: at the report every file that
\* was read has exactly one of the six final outcomes, and while the run goes
\* on the only file that is past the hash check and not yet at its final
\* outcome is the one being processed.
C15_EveryFileReachesATerminalState ==
    /\ pc # "crashed"
    /\ pc = "done"
       => /\ report # <<>>
          /\ \A k \in 1..Len(seen) :
                outcome[seen[k]] \in {"DuplicateSkipped", "MissingSkipped", "Moved",
                                      "RenamedMoved", "SkippedIdentical", "Errored"}
    /\ \A i \in FileIds :
          outcome[i] = "Unique"
          => /\ pc \in {"date", "copy"}
             /\ absolutepath \in DOMAIN files
             /\ files[absolutepath].id = i

\* C16: no step loses or alters the content of a file: a step leaves the
\* regular files as they are, or renames exactly one file from outside the
\* library to a library path at which nothing existed; every other file, and
\* so every file already in the library, keeps its path, its content and its
\* attributes, and every content is held by as many files after the step as
\* before it.
C16_ContentsArePreserved ==
    [][ /\ \A c \in { files[p].content : p \in DOMAIN files } \cup
                     { files'[p].content : p \in DOMAIN files' } :
              Cardinality({ p \in DOMAIN files : files[p].content = c })
              = Cardinality({ p \in DOMAIN files' : files'[p].content = c })
        /\ \A p \in DOMAIN files :
              InLibrary(p) => p \in DOMAIN files' /\ files'[p] = files[p]
        /\ files' # files
           => \E src \in DOMAIN files, dst \in DOMAIN files' :
                 /\ ~InLibrary(src) /\ InLibrary(dst)
                 /\ dst \notin DOMAIN files /\ dst \notin dirs
                 /\ DOMAIN files' = (DOMAIN files \ {src}) \cup {dst}
                 /\ files'[dst] = files[src]
                 /\ \A p \in DOMAIN files \ {src} : files'[p] = files[p] ]_vars

C16_Witness ==
    /\ pc = "done"
    /\ \E i, j \in FileIds :
          /\ InLibrary(files0[j]) /\ AtHome(j)
          /\ WasSource(i) /\ outcome[i] = "RenamedMoved"
          /\ SubSeq(Where(i), 1, Len(Where(i)) - 1)
             = SubSeq(Where(j), 1, Len(Where(j)) - 1)

\* C17: a file is registered when it is hashed and stays registered: every
\* file read in the run has its key in the registry, also while its date is
\* resolved and after it ended without being moved, and the registry holds
\* one key per content read.  When the first file read with a content ended
\* MissingSkipped, SkippedIdentical or Errored, every other file read with that
\* content is DuplicateSkipped and stays where it was.
C17_RegistrationIsNeverUndone ==
    /\ \A n \in 1..Len(seen) : FileIdOf(files[Where(seen[n])]) \in DOMAIN hashes
    /\ Cardinality(DOMAIN hashes)
       = Cardinality({ ContentOf(seen[n]) : n \in 1..Len(seen) })
    /\ \A n, m \in 1..Len(seen) :
          (/\ n < m
           /\ ContentOf(seen[n]) = ContentOf(seen[m])
           /\ outcome[seen[n]] \in {"MissingSkipped", "SkippedIdentical", "Errored"})
          => /\ outcome[seen[m]] = "DuplicateSkipped"
             /\ AtHome(seen[m])

C17_Witness ==
    /\ pc = "done"
    /\ Len(seen) = 2
    /\ ContentOf(seen[1]) = ContentOf(seen[2])
    /\ outcome[seen[1]] = "MissingSkipped"
    /\ outcome[seen[2]] = "DuplicateSkipped"
    /\ DateOf(seen[2]) # <<>>
    /\ report = <<1, 0>>

====
